---------------------------- MODULE Spec2Model ----------------------------
(***************************************************************************)
(* Token authentication and single-use action tokens of Twinning-API.      *)
(*                                                                         *)
(* State: the users table (is_active, password), the TemporaryToken table  *)
(* (one row per user, keyed by key), the ActionToken table (keyed by key), *)
(* the clock, and the last response of each request handler.               *)
(*                                                                         *)
(* models.py and serializers.py are translated from the source.  The       *)
(* request handlers of views.py and authentication.py (login view,         *)
(* authentication gate, token destroy view, activation / reset / change    *)
(* password views) are not part of the available source; they are          *)
(* translated from sections 4.3, 4.4, 4.5 and 6 of the design document.    *)
(*                                                                         *)
(* Time is counted in minutes.  Keys come from os.urandom(20): a generated *)
(* key is modelled as a key that was never generated before.               *)
(***************************************************************************)
EXTENDS Integers, FiniteSets, TLC

\* ---------------------------------------------------------------- bounds
MaxTime == 2
MaxTempKeys == 2
MaxActionKeys == 2
\* The number of ActionTokens issued where redemptions are explored
MaxRedeemKeys == 1
\* settings.REST_FRAMEWORK_TEMPORARY_TOKENS['MINUTES'], scaled down
SessionWindow == 2
\* settings.ACTIVATION_TOKENS['MINUTES'], scaled down
ActivationWindow == 1
\* The largest number of redemptions counted per key
MaxCount == 2

Users == {"john", "chuck"}
Passwords == {"Test123!", "other"}
Clients == {"c1", "c2"}
TempKeys == 1..MaxTempKeys
ActionKeys == 1..MaxActionKeys
RedeemKeys == 1..MaxRedeemKeys

\* ActionToken.ACTIONS_TYPE
ACTIONS_TYPE == {"account_activation", "password_change"}

VARIABLES
    now,              \* timezone.now(), in minutes
    registered,       \* emails that have a User row
    is_active,        \* User.is_active
    password,         \* User.password (what check_password accepts)
    RENEW_ON_SUCCESS, \* settings.REST_FRAMEWORK_TEMPORARY_TOKENS['RENEW_ON_SUCCESS']
    temporaryTokens,  \* TemporaryToken rows: [key, user, created, expires]
    tempKeysUsed,     \* number of TemporaryToken keys generated so far
    actionTokens,     \* ActionToken rows: [key, type, user, created, expires]
    actionKeysUsed,   \* number of ActionToken keys generated so far
    response,         \* the response of the last request handled
    request,          \* per client: the key of its redemption request in flight
    observed,         \* per ActionToken key: what its eligible redemptions saw
    applied,          \* per ActionToken key: times its action was applied
    issued,           \* per ActionToken key: the row as last stored
    revoked,          \* [key, user] of the TemporaryToken rows the destroy view deleted
    session,          \* per TemporaryToken key: when issue wrote its expires, and when
                      \* issue or a renewal last did
    validating,       \* per client: the renewal its validate call has yet to write
    raced             \* per TemporaryToken key: the validate calls that overlap

userVars == <<registered, is_active, password>>
tempVars == <<temporaryTokens, tempKeysUsed, revoked, session>>
actionVars == <<actionTokens, actionKeysUsed, issued>>
redeemVars == <<request, observed, applied>>
gateVars == <<validating, raced>>
vars == <<now, registered, is_active, password, RENEW_ON_SUCCESS,
          temporaryTokens, tempKeysUsed, actionTokens, actionKeysUsed,
          response, request, observed, applied, issued, revoked, session,
          validating, raced>>

NoUser == "nobody"
NoRequest == 0
NoneObserved == [success |-> 0, notFound |-> 0, other |-> 0, rivals |-> {},
                 raced |-> FALSE]
NoSession == [issue |-> -1, renewal |-> -1]
NoValidate == [key |-> 0, at |-> -1]
NoRace == [before |-> -1, nows |-> {}, calls |-> 0]
NoRow == [key |-> 0, type |-> "none", user |-> NoUser, created |-> 0, expires |-> 0]

Response(op, key, status, detail, user, renewed) ==
    [op |-> op, key |-> key, status |-> status, detail |-> detail,
     user |-> user, renewed |-> renewed, type |-> "none", valid |-> FALSE]

\* The response of a redemption endpoint, with the request it answers
RedeemResponse(key, type, valid, status, outcome) ==
    [op |-> "redeem", key |-> key, status |-> status, detail |-> outcome,
     user |-> NoUser, renewed |-> FALSE, type |-> type, valid |-> valid]

\* Counting up to MaxCount ("MaxCount or more")
Count(n) == IF n < MaxCount THEN n + 1 ELSE MaxCount

\* ------------------------------------------------------------- models.py

\* TemporaryToken.expired / ActionToken.expired
expired_strict(token) == token.expires < now
expired_flipped(token) == token.expires >= now
expired(token) == token.expires <= now

TempKeysOf(tokens) == {t.key : t \in tokens}
TokenOf(key) == CHOOSE t \in temporaryTokens : t.key = key
TokenOfUser(user) == CHOOSE t \in temporaryTokens : t.user = user
HasToken_never(user) == FALSE
HasToken(user) == \E t \in temporaryTokens : t.user = user

ActionTokenOf(key) == CHOOSE t \in actionTokens : t.key = key
ActionKeysOf(tokens) == {t.key : t \in tokens}

\* Token.generate_key (rest_framework), used by Token.save when key is empty
generate_temp_key_reuse == IF 1 \in TempKeysOf(temporaryTokens)
                           THEN tempKeysUsed + 1 ELSE 1
generate_temp_key == tempKeysUsed + 1

\* A row that was never saved has no key
NoKey == 0

\* TemporaryToken.save: a row without a pk gets expires = now + MINUTES,
\* and Token.save gives it a key; a row that has one is stored as it is.
TemporaryToken_save_always(token) ==
    [token EXCEPT !.key = IF @ = NoKey THEN generate_temp_key ELSE @,
                  !.expires = now + SessionWindow]
TemporaryToken_save(token) ==
    IF token.key = NoKey
    THEN [token EXCEPT !.key = generate_temp_key,
                       !.expires = now + SessionWindow]
    ELSE token

\* TemporaryToken.save of a new row (no pk): expires = now + MINUTES
TemporaryToken_create_no_window(user) ==
    [key |-> generate_temp_key, user |-> user, created |-> now, expires |-> now]
TemporaryToken_create_long(user) ==
    [key |-> generate_temp_key, user |-> user, created |-> now,
     expires |-> now + SessionWindow + 1]
TemporaryToken_create(user) ==
    TemporaryToken_save([key |-> NoKey, user |-> user, created |-> now,
                         expires |-> 0])

\* TemporaryToken.expire: expires = now, then save of a row that has a pk
TemporaryToken_expire_epoch(token) == [token EXCEPT !.expires = 0]
TemporaryToken_expire(token) ==
    TemporaryToken_save([token EXCEPT !.expires = now])

\* ActionToken.generate_key
generate_key_reuse == IF 1 \in ActionKeysOf(actionTokens)
                      THEN actionKeysUsed + 1 ELSE 1
generate_key_fixed == CHOOSE k \in ActionKeys : \A j \in ActionKeys : k <= j
generate_key == actionKeysUsed + 1

\* ActionToken.save: a row without a key gets a generated key and
\* expires = now + MINUTES; a row that has one is stored as it is.
ActionToken_save_always(token) ==
    [token EXCEPT !.key = IF @ = NoKey THEN generate_key ELSE @,
                  !.expires = now + ActivationWindow]
ActionToken_save(token) ==
    IF token.key = NoKey
    THEN [token EXCEPT !.key = generate_key,
                       !.expires = now + ActivationWindow]
    ELSE token

\* ActionToken.save of a new row (no key)
ActionToken_create_no_window(user, type) ==
    [key |-> generate_key, type |-> type, user |-> user, created |-> now,
     expires |-> now]
ActionToken_create(user, type) ==
    ActionToken_save([key |-> NoKey, type |-> type, user |-> user,
                      created |-> now, expires |-> 0])

\* ActionToken.expire: expires = now, then save of a row that has a key
ActionToken_expire_noop(token) == token
ActionToken_expire(token) == ActionToken_save([token EXCEPT !.expires = now])



\* --------------------------------------------------------- serializers.py

\* django.contrib.auth.authenticate as CustomAuthTokenSerializer.validate
\* calls it: the user with that email, when the password matches and the
\* account is active (ModelBackend.user_can_authenticate); otherwise None.
authenticate(email, pw) ==
    IF email \in registered /\ password[email] = pw /\ is_active[email]
    THEN email ELSE NoUser

\* CustomAuthTokenSerializer.validate: the user, or the one ValidationError
AuthFailure == "Unable to log in with provided credentials."
CustomAuthTokenSerializer_validate_enumerating(email, pw) ==
    IF email \notin registered
    THEN [ok |-> FALSE, user |-> NoUser,
          detail |-> "No account associated to this email address."]
    ELSE IF authenticate(email, pw) = NoUser
    THEN [ok |-> FALSE, user |-> NoUser, detail |-> AuthFailure]
    ELSE [ok |-> TRUE, user |-> authenticate(email, pw), detail |-> ""]
CustomAuthTokenSerializer_validate(email, pw) ==
    IF authenticate(email, pw) = NoUser
    THEN [ok |-> FALSE, user |-> NoUser, detail |-> AuthFailure]
    ELSE [ok |-> TRUE, user |-> authenticate(email, pw), detail |-> ""]

\* ------------------------------------------- SessionTokenService (4.3, 4.5)

\* validate(key): the failure taxonomy in priority order
authenticate_credentials(key) ==
    IF key \notin TempKeysOf(temporaryTokens) THEN "InvalidToken"
    ELSE IF expired(TokenOf(key)) THEN "ExpiredToken"
    ELSE IF ~is_active[TokenOf(key).user] THEN "InactiveUser"
    ELSE "Success"

\* The fixed payloads of the gate
Detail(outcome) ==
    CASE outcome = "InvalidToken" -> "Invalid token"
      [] outcome = "ExpiredToken" -> "Token has expired"
      [] outcome = "InactiveUser" -> "User inactive or deleted"
      [] OTHER -> ""

\* The token table after validate(key): renewed on success when the policy
\* is enabled (expires = now + sessionWindow), untouched otherwise.
Renewed(key) ==
    IF authenticate_credentials(key) = "Success" /\ RENEW_ON_SUCCESS
    THEN (temporaryTokens \ {TokenOf(key)})
            \cup {[TokenOf(key) EXCEPT !.expires = now + SessionWindow]}
    ELSE temporaryTokens

\* The sessions after validate(key): a renewal is recorded
Used(key) ==
    IF authenticate_credentials(key) = "Success" /\ RENEW_ON_SUCCESS
    THEN [session EXCEPT ![key].renewal = now]
    ELSE session

GateResponse(op, key) ==
    IF authenticate_credentials(key) = "Success"
    THEN Response(op, key, 200, "", TokenOf(key).user, RENEW_ON_SUCCESS)
    ELSE Response(op, key, 401, Detail(authenticate_credentials(key)),
                  NoUser, FALSE)

\* issue(identifier, presentedPassword): POST /authentication
Login(email, pw) ==
    LET v == CustomAuthTokenSerializer_validate(email, pw) IN
    /\ IF ~v.ok
       THEN /\ response' = Response("issue", 0, 400, v.detail, NoUser, FALSE)
            /\ UNCHANGED tempVars
       ELSE IF HasToken(v.user)
       THEN /\ temporaryTokens' =
                  (temporaryTokens \ {TokenOfUser(v.user)}) \cup
                  {[TokenOfUser(v.user) EXCEPT !.expires = now + SessionWindow]}
            /\ session' = [session EXCEPT ![TokenOfUser(v.user).key] =
                                [issue |-> now, renewal |-> now]]
            /\ response' = Response("issue", TokenOfUser(v.user).key, 200, "",
                                    v.user, FALSE)
            /\ UNCHANGED <<tempKeysUsed, revoked>>
       ELSE /\ tempKeysUsed < MaxTempKeys
            /\ temporaryTokens' =
                  temporaryTokens \cup {TemporaryToken_create(v.user)}
            /\ tempKeysUsed' = tempKeysUsed + 1
            /\ session' = [session EXCEPT ![generate_temp_key] =
                                [issue |-> now, renewal |-> now]]
            /\ response' = Response("issue", TemporaryToken_create(v.user).key,
                                    200, "", v.user, FALSE)
            /\ UNCHANGED revoked
    /\ UNCHANGED <<now, userVars, RENEW_ON_SUCCESS, gateVars,
                  actionVars, redeemVars>>

\* validate(key): any request presenting "Authorization: Token <key>"
Authenticate(key) ==
    /\ temporaryTokens' = Renewed(key)
    /\ session' = Used(key)
    /\ response' = GateResponse("validate", key)
    /\ UNCHANGED <<now, userVars, RENEW_ON_SUCCESS, gateVars,
                  tempKeysUsed, revoked,
                   actionVars, redeemVars>>

\* validate(key) of client c, up to its decision: the clock is read, the row
\* is looked up and checked; a success with renewal enabled has expires yet
\* to write.  raced collects the calls for a key that overlap: the expires
\* stored when the first began, and the clock reading of each.
BeginValidate(c, key) ==
    /\ validating[c] = NoValidate
    /\ IF authenticate_credentials(key) = "Success" /\ RENEW_ON_SUCCESS
       THEN /\ validating' = [validating EXCEPT ![c] = [key |-> key, at |-> now]]
            /\ raced' = [raced EXCEPT ![key] =
                  IF \E d \in Clients : validating[d].key = key
                  THEN [@ EXCEPT !.nows = @ \cup {now}, !.calls = Count(@)]
                  ELSE [before |-> TokenOf(key).expires, nows |-> {now},
                        calls |-> 1]]
       ELSE UNCHANGED gateVars
    /\ response' = GateResponse("gate", key)
    /\ UNCHANGED <<now, userVars, RENEW_ON_SUCCESS, tempVars, actionVars,
                   redeemVars>>

\* validate(key) of client c, its renewal: expires of the row with the key
\* becomes the call's clock reading + sessionWindow.
CommitValidate(c) ==
    LET key == validating[c].key
        at == validating[c].at
    IN
    /\ validating[c] # NoValidate
    /\ temporaryTokens' =
          {IF t.key = key THEN [t EXCEPT !.expires = at + SessionWindow] ELSE t
             : t \in temporaryTokens}
    /\ session' = IF key \in TempKeysOf(temporaryTokens)
                  THEN [session EXCEPT ![key].renewal = at]
                  ELSE session
    /\ validating' = [validating EXCEPT ![c] = NoValidate]
    /\ response' = Response("renew", key, 200, "", NoUser, TRUE)
    /\ UNCHANGED <<now, userVars, RENEW_ON_SUCCESS, tempKeysUsed, revoked,
                   raced, actionVars, redeemVars>>

\* revoke(key): DELETE /authentication/<key> presenting the key auth.
\* The gate runs first; the authenticated owner then deletes the row, and
\* a key without a row is not an error.
Revoke_strict(auth, key) ==
    /\ IF authenticate_credentials(auth) # "Success"
       THEN /\ response' = GateResponse("revoke", auth)
            /\ UNCHANGED <<temporaryTokens, revoked, session>>
       ELSE IF key \notin TempKeysOf(Renewed(auth))
       THEN /\ temporaryTokens' = Renewed(auth)
            /\ response' = Response("revoke", key, 404, "",
                                    TokenOf(auth).user, RENEW_ON_SUCCESS)
            /\ session' = Used(auth)
            /\ UNCHANGED revoked
       ELSE IF TokenOf(key).user # TokenOf(auth).user
       THEN /\ temporaryTokens' = Renewed(auth)
            /\ response' = Response("revoke", key, 403, "",
                                    TokenOf(auth).user, RENEW_ON_SUCCESS)
            /\ session' = Used(auth)
            /\ UNCHANGED revoked
       ELSE /\ temporaryTokens' = {t \in Renewed(auth) : t.key # key}
            /\ revoked' = revoked \cup {[key |-> key, user |-> TokenOf(key).user]}
            /\ session' = [Used(auth) EXCEPT ![key] = NoSession]
            /\ response' = Response("revoke", key, 204, "",
                                    TokenOf(auth).user, RENEW_ON_SUCCESS)
    /\ UNCHANGED <<now, userVars, RENEW_ON_SUCCESS, gateVars, tempKeysUsed,
                   actionVars, redeemVars>>

Revoke(auth, key) ==
    /\ IF authenticate_credentials(auth) # "Success"
       THEN /\ response' = GateResponse("revoke", auth)
            /\ UNCHANGED <<temporaryTokens, revoked, session>>
       ELSE IF key \notin TempKeysOf(Renewed(auth))
       THEN /\ temporaryTokens' = Renewed(auth)
            /\ response' = Response("revoke", key, 204, "",
                                    TokenOf(auth).user, RENEW_ON_SUCCESS)
            /\ session' = Used(auth)
            /\ UNCHANGED revoked
       ELSE IF TokenOf(key).user # TokenOf(auth).user
       THEN /\ temporaryTokens' = Renewed(auth)
            /\ response' = Response("revoke", key, 403, "",
                                    TokenOf(auth).user, RENEW_ON_SUCCESS)
            /\ session' = Used(auth)
            /\ UNCHANGED revoked
       ELSE /\ temporaryTokens' = {t \in Renewed(auth) : t.key # key}
            /\ revoked' = revoked \cup {[key |-> key, user |-> TokenOf(key).user]}
            /\ session' = [Used(auth) EXCEPT ![key] = NoSession]
            /\ response' = Response("revoke", key, 204, "",
                                    TokenOf(auth).user, RENEW_ON_SUCCESS)
    /\ UNCHANGED <<now, userVars, RENEW_ON_SUCCESS, gateVars, tempKeysUsed,
                   actionVars, redeemVars>>

\* TemporaryToken.expire() on a stored row
ExpireTemporaryToken(key) ==
    /\ key \in TempKeysOf(temporaryTokens)
    /\ temporaryTokens' = (temporaryTokens \ {TokenOf(key)})
                             \cup {TemporaryToken_expire(TokenOf(key))}
    /\ session' = [session EXCEPT ![key] = NoSession]
    /\ response' = Response("expire", key, 0, "", NoUser, FALSE)
    /\ UNCHANGED <<now, userVars, RENEW_ON_SUCCESS, gateVars,
                  tempKeysUsed, revoked,
                   actionVars, redeemVars>>

\* TemporaryToken.save() on a stored row
SaveTemporaryToken(key) ==
    /\ key \in TempKeysOf(temporaryTokens)
    /\ temporaryTokens' = (temporaryTokens \ {TokenOf(key)})
                             \cup {TemporaryToken_save(TokenOf(key))}
    /\ response' = Response("save", key, 0, "", NoUser, FALSE)
    /\ UNCHANGED <<now, userVars, RENEW_ON_SUCCESS, gateVars, tempKeysUsed,
                   revoked, session, actionVars, redeemVars>>

\* The user directory flips the active flag (setattr(user, 'is_active', ..)
\* then user.save())
SetActive(user, flag) ==
    /\ user \in registered
    /\ is_active[user] # flag
    /\ is_active' = [is_active EXCEPT ![user] = flag]
    /\ response' = Response("set_active", 0, 0, "", user, FALSE)
    /\ UNCHANGED <<now, registered, password, RENEW_ON_SUCCESS, gateVars,
                  tempVars,
                   actionVars, redeemVars>>

\* The clock
Tick ==
    /\ now < MaxTime
    /\ now' = now + 1
    /\ response' = Response("tick", 0, 0, "", NoUser, FALSE)
    /\ UNCHANGED <<userVars, RENEW_ON_SUCCESS, gateVars,
                  tempVars, actionVars, redeemVars>>

\* ------------------------------------------------ ActionTokenService (4.4)

\* UserSerializer.create: the user is saved inactive, and an ActionToken of
\* type account_activation is created for it.  The email is not registered
\* yet (UniqueValidator).
Signup(email, pw) ==
    /\ email \notin registered
    /\ actionKeysUsed < MaxActionKeys
    /\ registered' = registered \cup {email}
    /\ password' = [password EXCEPT ![email] = pw]
    /\ is_active' = [is_active EXCEPT ![email] = FALSE]
    /\ actionTokens' =
          actionTokens \cup {ActionToken_create(email, "account_activation")}
    /\ issued' = [issued EXCEPT ![generate_key] =
                      ActionToken_create(email, "account_activation")]
    /\ actionKeysUsed' = actionKeysUsed + 1
    /\ response' = Response("signup", generate_key, 201, "", email, FALSE)
    /\ UNCHANGED <<now, RENEW_ON_SUCCESS, gateVars, tempVars, redeemVars>>

\* POST /reset_password: ResetPasswordSerializer.validate_email rejects an
\* unknown email with 400; otherwise issue(owner, password_change).
ResetPassword(email) ==
    /\ IF email \notin registered
       THEN /\ response' = Response("reset_password", 0, 400,
                  "No account associated to this email address.", NoUser, FALSE)
            /\ UNCHANGED actionVars
       ELSE /\ actionKeysUsed < MaxActionKeys
            /\ actionTokens' =
                  actionTokens \cup {ActionToken_create(email, "password_change")}
            /\ issued' = [issued EXCEPT ![generate_key] =
                              ActionToken_create(email, "password_change")]
            /\ actionKeysUsed' = actionKeysUsed + 1
            /\ response' = Response("reset_password", generate_key, 201, "",
                                    email, FALSE)
    /\ UNCHANGED <<now, userVars, RENEW_ON_SUCCESS, gateVars,
                  tempVars, redeemVars>>

\* ActionToken.expire() on a stored row
ExpireActionToken(key) ==
    /\ key \in ActionKeysOf(actionTokens)
    /\ actionTokens' = (actionTokens \ {ActionTokenOf(key)})
                          \cup {ActionToken_expire(ActionTokenOf(key))}
    /\ issued' = [issued EXCEPT ![key] = ActionToken_expire(ActionTokenOf(key))]
    /\ response' = Response("expire_action", key, 0, "", NoUser, FALSE)
    /\ UNCHANGED <<now, userVars, RENEW_ON_SUCCESS, gateVars,
                  tempVars, actionKeysUsed,
                   redeemVars>>

\* ActionToken.save() on a stored row
SaveActionToken(key) ==
    /\ key \in ActionKeysOf(actionTokens)
    /\ actionTokens' = (actionTokens \ {ActionTokenOf(key)})
                          \cup {ActionToken_save(ActionTokenOf(key))}
    /\ response' = Response("save_action", key, 0, "", NoUser, FALSE)
    /\ UNCHANGED <<now, userVars, RENEW_ON_SUCCESS, gateVars, tempVars,
                   actionKeysUsed, issued, redeemVars>>

\* A client sends a redemption request for a key: POST /users/activate
\* or POST /change_password.  It stays in flight until it is handled.
Submit(c, key) ==
    /\ request[c] = NoRequest
    /\ request' = [request EXCEPT ![c] = key]
    /\ response' = Response("submit", 0, 0, "", NoUser, FALSE)
    /\ UNCHANGED <<now, userVars, RENEW_ON_SUCCESS, gateVars,
                  tempVars, actionVars,
                   observed, applied>>

\* redeem(key, expectedType, apply): the failure taxonomy, then apply;
\* valid tells whether apply accepts the request's payload.
redeem(key, expectedType, valid) ==
    IF key \notin ActionKeysOf(actionTokens) THEN "NotFound"
    ELSE IF expired(ActionTokenOf(key)) THEN "Expired"
    ELSE IF ActionTokenOf(key).type # expectedType THEN "TypeMismatch"
    ELSE IF ~valid THEN "ApplyFailed"
    ELSE "Success"

\* The request names a key that was issued with the type the endpoint
\* expects, arrives before the expiry last stored for that key, and carries
\* a payload apply accepts.  (issued keeps the row of a deleted token.)
Eligible(key, type, valid) ==
    /\ type = issued[key].type
    /\ now < issued[key].expires
    /\ valid

\* What the eligible redemptions of a key have observed so far.  rivals
\* are the clients whose request for the key was in flight when a
\* redemption of it succeeded; raced tells that such a rival's request was
\* eligible too when it was handled.
Observe(o, c, outcome, inflight) ==
    [success |-> IF outcome = "Success" THEN Count(o.success) ELSE o.success,
     notFound |-> IF outcome = "NotFound" THEN Count(o.notFound) ELSE o.notFound,
     other |-> IF outcome \notin {"Success", "NotFound"}
               THEN Count(o.other) ELSE o.other,
     rivals |-> IF outcome = "Success" THEN inflight ELSE o.rivals \ {c},
     raced |-> o.raced \/ c \in o.rivals]

\* The handler of the redemption request of client c, as one transaction:
\* type is the type its endpoint expects (account_activation for
\* /users/activate, password_change for /change_password).  On success the
\* action is applied to the owner and the row is deleted.
Redeem(c, type, valid, newpw) ==
    LET key == request[c]
        outcome == redeem(key, type, valid)
    IN
    /\ key # NoRequest
    /\ request' = [request EXCEPT ![c] = NoRequest]
    /\ observed' = IF Eligible(key, type, valid)
                   THEN [observed EXCEPT ![key] = Observe(@, c, outcome,
                            {d \in Clients \ {c} : request[d] = key})]
                   ELSE [observed EXCEPT ![key].rivals = @ \ {c}]
    /\ IF outcome = "Success"
       THEN /\ actionTokens' = actionTokens \ {ActionTokenOf(key)}
            /\ applied' = [applied EXCEPT ![key] = Count(@)]
            /\ IF type = "account_activation"
               THEN /\ is_active' =
                         [is_active EXCEPT ![ActionTokenOf(key).user] = TRUE]
                    /\ UNCHANGED password
               ELSE /\ password' =
                         [password EXCEPT ![ActionTokenOf(key).user] = newpw]
                    /\ UNCHANGED is_active
            /\ response' = RedeemResponse(key, type, valid, 200, outcome)
       ELSE /\ UNCHANGED <<actionTokens, applied, is_active, password>>
            /\ response' = RedeemResponse(key, type, valid, 400, outcome)
    /\ UNCHANGED <<now, registered, RENEW_ON_SUCCESS, gateVars,
                  tempVars, actionKeysUsed,
                   issued>>

\* ------------------------------------------------------------ the system

\* One or two active accounts exist (UserFactory, password 'Test123!');
\* nobody is logged in and no action token is outstanding.
Init ==
    /\ now = 0
    /\ registered \in {{"john"}, Users}
    /\ is_active = [u \in Users |-> u \in registered]
    /\ password = [u \in Users |-> IF u \in registered THEN "Test123!" ELSE ""]
    /\ RENEW_ON_SUCCESS \in BOOLEAN
    /\ temporaryTokens = {}
    /\ tempKeysUsed = 0
    /\ actionTokens = {}
    /\ actionKeysUsed = 0
    /\ response = Response("none", 0, 0, "", NoUser, FALSE)
    /\ request = [c \in Clients |-> NoRequest]
    /\ observed = [k \in ActionKeys |-> NoneObserved]
    /\ applied = [k \in ActionKeys |-> 0]
    /\ issued = [k \in ActionKeys |-> NoRow]
    /\ revoked = {}
    /\ session = [k \in TempKeys |-> NoSession]
    /\ validating = [c \in Clients |-> NoValidate]
    /\ raced = [k \in TempKeys |-> NoRace]

\* The requests of the session-token service and of the user directory
SessionNext ==
    \/ Tick
    \/ \E email \in Users, pw \in Passwords : Login(email, pw)
    \/ \E key \in TempKeys : Authenticate(key)
    \/ \E auth \in TempKeys, key \in TempKeys : Revoke(auth, key)
    \/ \E key \in TempKeys : ExpireTemporaryToken(key)
    \/ \E user \in Users, flag \in BOOLEAN : SetActive(user, flag)

\* The requests of the action-token service, redemptions one at a time
ActionNext ==
    \/ Tick
    \/ \E email \in Users, pw \in Passwords :
          actionKeysUsed < MaxRedeemKeys /\ Signup(email, pw)
    \/ \E email \in Users :
          (email \notin registered \/ actionKeysUsed < MaxRedeemKeys)
             /\ ResetPassword(email)
    \/ \E key \in ActionKeys : ExpireActionToken(key)
    \/ \E key \in RedeemKeys : Submit("c1", key)
    \/ \E type \in ACTIONS_TYPE, valid \in BOOLEAN, newpw \in Passwords :
          Redeem("c1", type, valid, newpw)

\* The requests of the action-token service, with the redemption requests
\* of several clients in flight at once (one signup password, one new
\* password)
RaceNext ==
    \/ Tick
    \/ \E email \in Users :
          actionKeysUsed < MaxRedeemKeys /\ Signup(email, "Test123!")
    \/ \E email \in Users :
          (email \notin registered \/ actionKeysUsed < MaxRedeemKeys)
             /\ ResetPassword(email)
    \/ \E key \in ActionKeys : ExpireActionToken(key)
    \/ \E c \in Clients, key \in RedeemKeys : Submit(c, key)
    \/ \E c \in Clients, type \in ACTIONS_TYPE, valid \in BOOLEAN,
          newpw \in {"other"} : Redeem(c, type, valid, newpw)

\* The requests of the session-token service as one account and one
\* stranger see them: logins with any email and password
LoginNext ==
    \/ Tick
    \/ \E email \in Users, pw \in Passwords : Login(email, pw)
    \/ \E key \in TempKeys : Authenticate(key)
    \/ \E key \in TempKeys : ExpireTemporaryToken(key)
    \/ \E user \in Users, flag \in BOOLEAN : SetActive(user, flag)

\* Logins, and the validate calls of several clients in flight at once
GateRaceNext ==
    \/ Tick
    \/ \E email \in Users : Login(email, "Test123!")
    \/ \E c \in Clients, key \in TempKeys : BeginValidate(c, key)
    \/ \E c \in Clients : CommitValidate(c)

\* Signups and reset requests, as many as there are keys, with no
\* redemption
IssueNext ==
    \/ Tick
    \/ \E email \in Users : Signup(email, "Test123!")
    \/ \E email \in Users : ResetPassword(email)
    \/ \E key \in ActionKeys : ExpireActionToken(key)

\* Logins and signups, and expire() and save() on the stored rows
SaveNext ==
    \/ Tick
    \/ \E email \in Users : Login(email, "Test123!")
    \/ \E key \in TempKeys : ExpireTemporaryToken(key)
    \/ \E key \in TempKeys : SaveTemporaryToken(key)
    \/ \E email \in Users : actionKeysUsed < MaxRedeemKeys
                               /\ Signup(email, "Test123!")
    \/ \E key \in ActionKeys : ExpireActionToken(key)
    \/ \E key \in ActionKeys : SaveActionToken(key)

Next ==
    \/ SaveNext
    \/ SessionNext \/ ActionNext \/ RaceNext \/ LoginNext \/ GateRaceNext
    \/ IssueNext

Spec == Init /\ [][Next]_vars

\* The two services share only the users table: each is checked on its own
\* requests, the session service with both accounts registered, the action
\* service with one account registered and one email free to sign up.
SessionInit == Init /\ registered = Users
ActionInit == Init /\ registered = {"john"}
SessionSpec == SessionInit /\ [][SessionNext]_vars
ActionSpec == ActionInit /\ [][ActionNext]_vars
RaceSpec == ActionInit /\ [][RaceNext]_vars
LoginSpec == ActionInit /\ [][LoginNext]_vars
GateRaceSpec == ActionInit /\ [][GateRaceNext]_vars
IssueSpec == ActionInit /\ [][IssueNext]_vars
SaveSpec == ActionInit /\ [][SaveNext]_vars

\* ------------------------------------------------------------ properties

\* A step that handles a redemption request for key at the endpoint of
\* type: its response is that endpoint's.
RedeemOf(key, type) ==
    response'.op = "redeem" /\ response'.key = key /\ response'.type = type
Live(key) == key \in ActionKeysOf(actionTokens)
UsersUnchanged == is_active' = is_active /\ password' = password
\* The action of a token's type has been applied to its owner
Applied(token, type) ==
    IF type = "account_activation"
    THEN is_active'[token.user] /\ password' = password
    ELSE is_active' = is_active
         /\ \A u \in Users \ {token.user} : password'[u] = password[u]

\* C1: among the redemption requests for one ActionToken key that name the
\* matching type, arrive before expiry and carry a payload apply accepts,
\* whatever the order in which concurrent requests are handled, exactly one
\* observes success, every other one observes NotFound, and the action is
\* applied exactly once.
C1_ExclusiveRedemption ==
    \A k \in ActionKeys :
        /\ applied[k] <= 1
        /\ observed[k].success <= 1
        /\ observed[k].other = 0
        /\ observed[k].success + observed[k].notFound >= 1
              => observed[k].success = 1 /\ applied[k] = 1

\* Two requests for the same key were in flight together; one succeeded, the
\* other was handled after it and found nothing.
C1_Witness ==
    \E k \in ActionKeys :
        /\ observed[k].raced
        /\ observed[k].success = 1
        /\ observed[k].notFound = 1
        /\ applied[k] = 1

\* C2: the first redemption of a key (matching type, unexpired, payload
\* accepted) succeeds, applies its action once and deletes the row; every
\* redemption of a key that was already redeemed returns NotFound and
\* applies nothing.
C2_RedeemTwice ==
    [][\A k \in ActionKeys, t \in ACTIONS_TYPE :
        RedeemOf(k, t) =>
        /\ (Live(k) /\ ActionTokenOf(k).type = t
               /\ now < ActionTokenOf(k).expires /\ response'.valid)
           => /\ response'.detail = "Success"
              /\ applied[k] = 0 /\ applied'[k] = 1
              /\ Applied(ActionTokenOf(k), t)
              /\ actionTokens' = actionTokens \ {ActionTokenOf(k)}
        /\ applied[k] >= 1
           => /\ response'.detail = "NotFound"
              /\ applied' = applied
              /\ UsersUnchanged
              /\ actionTokens' = actionTokens
    ]_vars

\* A second redemption of a redeemed key has answered NotFound.
C2_Witness ==
    /\ response.op = "redeem"
    /\ response.detail = "NotFound"
    /\ response.valid
    /\ applied[response.key] = 1
    /\ response.type = issued[response.key].type

\* C3: redeeming an unexpired token against the other type fails with
\* TypeMismatch, applies nothing and leaves the row as it was, so that a
\* redemption with its own type still succeeds.
C3_TypeMismatch ==
    [][\A k \in ActionKeys, t \in ACTIONS_TYPE :
        (RedeemOf(k, t) /\ Live(k) /\ now < ActionTokenOf(k).expires /\ ActionTokenOf(k).type # t)
        => /\ response'.detail = "TypeMismatch"
           /\ applied' = applied
           /\ UsersUnchanged
           /\ actionTokens' = actionTokens
           /\ (redeem(k, ActionTokenOf(k).type, TRUE) = "Success")'
    ]_vars

C3_Witness ==
    /\ response.op = "redeem"
    /\ response.detail = "TypeMismatch"
    /\ Live(response.key)
    /\ ActionTokenOf(response.key).type = "account_activation"
    /\ response.type = "password_change"

\* C4: when every check passes and apply fails, the row is neither deleted
\* nor modified, nothing is applied, and a redemption of the same key with
\* the same type can still succeed.
C4_ApplyFails ==
    [][\A k \in ActionKeys, t \in ACTIONS_TYPE :
        (RedeemOf(k, t) /\ Live(k) /\ now < ActionTokenOf(k).expires
            /\ ActionTokenOf(k).type = t /\ ~response'.valid)
        => /\ response'.detail = "ApplyFailed"
           /\ applied' = applied
           /\ UsersUnchanged
           /\ actionTokens' = actionTokens
           /\ (redeem(k, t, TRUE) = "Success")'
    ]_vars

C4_Witness ==
    /\ response.op = "redeem"
    /\ response.detail = "ApplyFailed"
    /\ Live(response.key)
    /\ redeem(response.key, response.type, TRUE) = "Success"

\* C5: a redemption at any time now >= expires, now = expires included,
\* fails with Expired and applies nothing; the owner of an activation token
\* issued at signup stays inactive.
C5_Expired ==
    [][\A k \in ActionKeys, t \in ACTIONS_TYPE :
        (RedeemOf(k, t) /\ Live(k) /\ now >= ActionTokenOf(k).expires)
        => /\ response'.detail = "Expired"
           /\ applied' = applied
           /\ UsersUnchanged
           /\ actionTokens' = actionTokens
    ]_vars

\* The activation token of a signup, redeemed exactly at its expiry
C5_Witness ==
    /\ response.op = "redeem"
    /\ response.detail = "Expired"
    /\ response.type = "account_activation"
    /\ response.valid
    /\ Live(response.key)
    /\ ActionTokenOf(response.key).type = "account_activation"
    /\ ActionTokenOf(response.key).expires = now
    /\ ActionTokenOf(response.key).expires
          = ActionTokenOf(response.key).created + ActivationWindow
    /\ ~is_active[ActionTokenOf(response.key).user]

\* A step that answers validate(key)
ValidateOf(key) == response'.op = "validate" /\ response'.key = key
Stored(key) == key \in TempKeysOf(temporaryTokens)

\* C6: validate of a stored, unexpired key of an active user succeeds and
\* returns the owner; the key a successful issue returned authenticates the
\* very next request as the user who logged in.
C6_ValidateSucceeds ==
    [][\A k \in TempKeys :
        /\ (ValidateOf(k) /\ Stored(k) /\ now < TokenOf(k).expires
               /\ is_active[TokenOf(k).user])
           => /\ response'.status = 200
              /\ response'.detail = ""
              /\ response'.user = TokenOf(k).user
        /\ (ValidateOf(k) /\ response.op = "issue" /\ response.status = 200
               /\ response.key = k)
           => /\ response'.status = 200
              /\ response'.user = response.user
    ]_vars

\* The request that follows a login has been authenticated with its key.
C6_Witness ==
    /\ response.op = "validate"
    /\ response.status = 200
    /\ Stored(response.key)
    /\ response.user = TokenOf(response.key).user
    /\ TokenOf(response.key).created = now

\* C7: validate of a key with now >= expires, expire() included, answers
\* 401 'Token has expired' and leaves the table as it was; the row stays,
\* expired, through every step but a login of its owner.
C7_ExpiredToken ==
    [][\A k \in TempKeys :
        /\ (ValidateOf(k) /\ Stored(k) /\ now >= TokenOf(k).expires)
           => /\ response'.status = 401
              /\ response'.detail = "Token has expired"
              /\ temporaryTokens' = temporaryTokens
        /\ (Stored(k) /\ now >= TokenOf(k).expires
               /\ ~(response'.op = "issue" /\ response'.status = 200
                      /\ response'.user = TokenOf(k).user))
           => (Stored(k) /\ now >= TokenOf(k).expires)'
    ]_vars

\* A token expired by expire() has been refused at the very time it expired.
C7_Witness ==
    /\ response.op = "validate"
    /\ response.detail = "Token has expired"
    /\ Stored(response.key)
    /\ TokenOf(response.key).expires = now
    /\ TokenOf(response.key).expires
          < TokenOf(response.key).created + SessionWindow

\* C8: validate of a stored, unexpired key whose owner is inactive answers
\* 401 'User inactive or deleted', authenticates nobody, and renews nothing.
C8_InactiveUser ==
    [][\A k \in TempKeys :
        (ValidateOf(k) /\ Stored(k) /\ now < TokenOf(k).expires
            /\ ~is_active[TokenOf(k).user])
        => /\ response'.status = 401
           /\ response'.detail = "User inactive or deleted"
           /\ response'.user = NoUser
           /\ ~response'.renewed
           /\ temporaryTokens' = temporaryTokens
    ]_vars

C8_Witness ==
    /\ response.op = "validate"
    /\ response.detail = "User inactive or deleted"
    /\ RENEW_ON_SUCCESS
    /\ Stored(response.key)
    /\ now < TokenOf(response.key).expires
    /\ ~is_active[TokenOf(response.key).user]

\* C9: validate answers InvalidToken when no row has the key, otherwise
\* ExpiredToken when now >= expires whatever the owner's flag, and
\* InactiveUser only for a stored, unexpired key.
C9_Priority ==
    [][\A k \in TempKeys :
        ValidateOf(k) =>
        /\ (~Stored(k) => /\ response'.status = 401
                          /\ response'.detail = "Invalid token")
        /\ ((Stored(k) /\ now >= TokenOf(k).expires)
               => /\ response'.status = 401
                  /\ response'.detail = "Token has expired")
        /\ (response'.detail = "User inactive or deleted"
               => /\ Stored(k)
                  /\ now < TokenOf(k).expires
                  /\ ~is_active[TokenOf(k).user])
    ]_vars

\* An expired token of an inactive user has been reported as expired.
C9_Witness ==
    /\ response.op = "validate"
    /\ response.detail = "Token has expired"
    /\ Stored(response.key)
    /\ ~is_active[TokenOf(response.key).user]

\* C10: a revoked key has no row, in the state after the revocation and in
\* every later one, and validate of it answers 401 'Invalid token'.
C10_Revoked ==
    /\ \A r \in revoked :
          /\ ~Stored(r.key)
          /\ (response.op = "validate" /\ response.key = r.key)
                => /\ response.status = 401
                   /\ response.detail = "Invalid token"
    /\ (response.op = "revoke" /\ response.status = 204)
          => ~Stored(response.key)

\* The owner of a revoked key has logged in again and holds another key;
\* the revoked key has been refused.
C10_Witness ==
    \E r \in revoked :
        /\ response.op = "validate"
        /\ response.key = r.key
        /\ response.detail = "Invalid token"
        /\ HasToken(r.user)
        /\ TokenOfUser(r.user).key # r.key

\* A step that answers validate(key) with success while renewal is enabled
RenewalOf(key) ==
    ValidateOf(key) /\ response'.status = 200 /\ RENEW_ON_SUCCESS

\* C11 as stated: with renewal enabled, every successful validate sets
\* expires to now + SessionWindow, reports renewed, and the new expires is
\* strictly greater than the one stored before.
C11_StrictlyGreater ==
    [][\A k \in TempKeys :
        RenewalOf(k)
        => /\ TokenOf(k)'.expires = now + SessionWindow
           /\ response'.renewed
           /\ TokenOf(k)'.expires > TokenOf(k).expires
    ]_vars

\* C11, amended: with renewal enabled, every successful validate sets
\* expires to now + SessionWindow and reports renewed; the new expires is
\* never less than the one stored before, and strictly greater when the
\* clock has advanced since issue or a renewal last wrote it.
C11_Renews ==
    [][\A k \in TempKeys :
        RenewalOf(k)
        => /\ Stored(k)'
           /\ TokenOf(k)'.expires = now + SessionWindow
           /\ response'.renewed
           /\ TokenOf(k)'.expires >= TokenOf(k).expires
           /\ session[k].renewal < now
                 => TokenOf(k)'.expires > TokenOf(k).expires
    ]_vars

\* A validate later than the login has renewed the token.
C11_Witness ==
    /\ response.op = "validate"
    /\ response.status = 200
    /\ response.renewed
    /\ Stored(response.key)
    /\ TokenOf(response.key).expires = now + SessionWindow
    /\ TokenOf(response.key).created < now
    /\ session[response.key].issue < now

\* C12: with renewal enabled the window slides: validate of a key whose
\* last issue or successful validate was less than SessionWindow ago
\* succeeds for its active owner, however long ago the key was issued.
C12_Slides ==
    [][\A k \in TempKeys :
        (ValidateOf(k) /\ RENEW_ON_SUCCESS /\ Stored(k)
            /\ session[k].renewal >= 0
            /\ now < session[k].renewal + SessionWindow
            /\ is_active[TokenOf(k).user])
        => /\ response'.status = 200
           /\ response'.user = TokenOf(k).user
           /\ TokenOf(k)'.expires = now + SessionWindow
    ]_vars

\* A validate has succeeded when the expiry set at issue had passed, and
\* the token now expires a full window later than that.
C12_Witness ==
    /\ response.op = "validate"
    /\ response.status = 200
    /\ RENEW_ON_SUCCESS
    /\ Stored(response.key)
    /\ session[response.key].issue >= 0
    /\ now >= session[response.key].issue + SessionWindow
    /\ TokenOf(response.key).expires
          >= session[response.key].issue + 2 * SessionWindow

\* C13: with renewal disabled, a successful validate writes nothing and
\* reports no renewal, and a token that expire() has not touched expires at
\* its issue time + SessionWindow whatever requests it has authenticated.
C13_Frozen ==
    [][\A k \in TempKeys :
        /\ (ValidateOf(k) /\ response'.status = 200 /\ ~RENEW_ON_SUCCESS)
           => /\ temporaryTokens' = temporaryTokens
              /\ ~response'.renewed
        /\ (~RENEW_ON_SUCCESS /\ Stored(k)' /\ session'[k].issue >= 0)
           => TokenOf(k)'.expires = session'[k].issue + SessionWindow
    ]_vars

\* A request later than the login has been authenticated, and the token
\* still expires when the login said.
C13_Witness ==
    /\ response.op = "validate"
    /\ response.status = 200
    /\ ~RENEW_ON_SUCCESS
    /\ Stored(response.key)
    /\ session[response.key].issue >= 0
    /\ session[response.key].issue < now
    /\ TokenOf(response.key).expires
          = session[response.key].issue + SessionWindow

TokensOfUser(user) == {t \in temporaryTokens : t.user = user}

\* C14: in every reachable state each user owns at most one TemporaryToken
\* row, and no two rows share a key.
C14_OneTokenPerUser ==
    /\ \A u \in Users : Cardinality(TokensOfUser(u)) <= 1
    /\ \A t1, t2 \in temporaryTokens : t1.key = t2.key => t1 = t2

\* A user whose key was revoked has logged in again, and later once more,
\* and owns one row.
C14_Witness ==
    /\ response.op = "issue"
    /\ response.status = 200
    /\ \E r \in revoked : r.user = response.user
    /\ Cardinality(TokensOfUser(response.user)) = 1
    /\ TokenOfUser(response.user).created < now

\* A step that answers a successful issue to user
IssueTo(user) ==
    response'.op = "issue" /\ response'.status = 200 /\ response'.user = user

\* C15: a successful issue to a user who has a row, expired or not, keeps
\* that row and its key and overwrites its expires with now + SessionWindow;
\* to a user without a row it adds one row with a key never issued before.
\* No other row changes.
C15_Reissue ==
    [][\A u \in Users :
        IssueTo(u) =>
        IF HasToken(u)
        THEN /\ temporaryTokens' = (temporaryTokens \ {TokenOfUser(u)}) \cup
                    {[TokenOfUser(u) EXCEPT !.expires = now + SessionWindow]}
             /\ response'.key = TokenOfUser(u).key
             /\ tempKeysUsed' = tempKeysUsed
        ELSE /\ \E t \in temporaryTokens' :
                    /\ temporaryTokens' = temporaryTokens \cup {t}
                    /\ t \notin temporaryTokens
                    /\ t.user = u
                    /\ t.key = response'.key
                    /\ t.created = now
                    /\ t.expires = now + SessionWindow
             /\ response'.key \notin TempKeysOf(temporaryTokens)
             /\ response'.key \notin {r.key : r \in revoked}
    ]_vars

\* With renewal disabled, a login a full window after the row was created
\* has given the same row a new expiry.
C15_Witness ==
    /\ response.op = "issue"
    /\ response.status = 200
    /\ ~RENEW_ON_SUCCESS
    /\ Cardinality(TokensOfUser(response.user)) = 1
    /\ TokenOfUser(response.user).key = response.key
    /\ TokenOfUser(response.user).created + SessionWindow <= now
    /\ TokenOfUser(response.user).expires = now + SessionWindow

\* The one response of a refused login
Refusal == Response("issue", 0, 400, AuthFailure, NoUser, FALSE)

\* C16: a login with an unregistered email and a login with a registered
\* email and a wrong password get the same response, 400 with the one
\* AuthFailure message and nothing else, and neither creates or modifies a
\* TemporaryToken.
C16_GenericFailure ==
    [][\A email \in Users, pw \in Passwords :
        (Login(email, pw)
            /\ (email \notin registered
                   \/ (email \in registered /\ password[email] # pw)))
        => /\ response' = Refusal
           /\ response'.detail = "Unable to log in with provided credentials."
           /\ temporaryTokens' = temporaryTokens
           /\ tempKeysUsed' = tempKeysUsed
    ]_vars

\* A login has been refused while one email is registered and logged in and
\* the other is not registered.
C16_Witness ==
    /\ response = Refusal
    /\ registered # Users
    /\ \E u \in registered : HasToken(u) /\ is_active[u]

RowsOf(tokens, key) == {t \in tokens : t.key = key}
\* No validate call for key is waiting to write its renewal
Quiet(key) == \A c \in Clients : validating[c].key # key

\* C17: with renewal enabled and validate calls for one key overlapping in
\* any order, each call that finds the key unexpired and its owner active
\* succeeds; each renewal leaves exactly one row for the key, with expires
\* at that call's clock reading + SessionWindow, and no other row changed;
\* and once the last of the overlapping calls has written, expires is one
\* of the calls' clock readings + SessionWindow and is not earlier than the
\* expires stored before the first of them began.
C17_ConcurrentRenewal ==
    [][\A k \in TempKeys :
        /\ (response'.op = "gate" /\ response'.key = k /\ Stored(k)
               /\ now < TokenOf(k).expires /\ is_active[TokenOf(k).user])
           => /\ response'.status = 200
              /\ response'.user = TokenOf(k).user
              /\ temporaryTokens' = temporaryTokens
        /\ \A c \in Clients :
              (response'.op = "renew" /\ validating[c].key = k
                  /\ validating'[c] = NoValidate)
              => /\ Cardinality(RowsOf(temporaryTokens', k)) = 1
                 /\ TokenOf(k)'.expires = validating[c].at + SessionWindow
                 /\ temporaryTokens' \ RowsOf(temporaryTokens', k)
                       = temporaryTokens \ RowsOf(temporaryTokens, k)
                 /\ Quiet(k)'
                       => /\ TokenOf(k)'.expires
                                \in {t + SessionWindow : t \in raced[k].nows}
                          /\ TokenOf(k)'.expires >= raced[k].before
    ]_vars

\* Two calls for one key overlapped with different clock readings, and the
\* call that read the clock first wrote last: the row holds its renewal.
C17_Witness ==
    /\ response.op = "renew"
    /\ Stored(response.key)
    /\ Quiet(response.key)
    /\ raced[response.key].calls = 2
    /\ \E t1, t2 \in raced[response.key].nows :
          /\ t1 < t2
          /\ TokenOf(response.key).expires = t1 + SessionWindow
    /\ TokenOf(response.key).expires >= raced[response.key].before

\* A step that answers revoke(key) to a request the gate let through
RevokeOf(key) ==
    response'.op = "revoke" /\ response'.key = key /\ response'.status # 401

\* C18: revoke of a key that has no row, never issued or already revoked,
\* answers 204 like a revocation; it deletes nothing, creates nothing and
\* leaves every row as it was but for the renewal of the row the request
\* authenticated with, so that a second revoke ends in the state the first
\* one left.  A revoke the gate refuses changes nothing at all.
C18_Idempotent ==
    [][/\ \A k \in TempKeys :
             (RevokeOf(k) /\ ~Stored(k))
             => /\ response'.status = 204
                /\ ~Stored(k)'
                /\ revoked' = revoked
                /\ tempKeysUsed' = tempKeysUsed
                /\ \A t \in temporaryTokens :
                      t.user # response'.user => t \in temporaryTokens'
                /\ \A t \in temporaryTokens' : \E o \in temporaryTokens :
                      [t EXCEPT !.expires = o.expires] = o
                /\ ~RENEW_ON_SUCCESS => temporaryTokens' = temporaryTokens
       /\ (response'.op = "revoke" /\ response'.status = 401)
             => /\ temporaryTokens' = temporaryTokens
                /\ revoked' = revoked
    ]_vars

\* A key its owner had revoked has been revoked again, by a request of the
\* other user: 204, and the other user's row is still there.
C18_Witness ==
    /\ response.op = "revoke"
    /\ response.status = 204
    /\ ~Stored(response.key)
    /\ \E r \in revoked : r.key = response.key /\ r.user # response.user
    /\ HasToken(response.user)

\* A step in which ActionToken.expire() ran on the row of key
ExpireOf(key) == response'.op = "expire_action" /\ response'.key = key
\* The row of key is stored and expired
Lapsed(key) == Live(key) /\ ActionTokenOf(key).expires <= now

\* C19 as stated: once an ActionToken has been redeemed or expire() has
\* run on it, its row is deleted.
C19_Deleted ==
    [][\A k \in ActionKeys :
        (ExpireOf(k)
           \/ ((\E t \in ACTIONS_TYPE : RedeemOf(k, t))
                 /\ response'.detail = "Success"))
        => ~Live(k)'
    ]_vars

\* C19, amended: a successful redemption deletes the row, and a deleted
\* row never comes back; expire() keeps the row and sets its expires to
\* now, an expired row stays stored and expired, and every redemption of an
\* expired or deleted token fails with Expired or NotFound and applies
\* nothing.
C19_SingleUse ==
    [][\A k \in ActionKeys :
        /\ ((\E t \in ACTIONS_TYPE : RedeemOf(k, t))
               /\ response'.detail = "Success")
           => Live(k) /\ ~Live(k)'
        /\ (issued[k] # NoRow /\ ~Live(k)) => ~Live(k)'
        /\ ExpireOf(k)
           => /\ Live(k) /\ Live(k)'
              /\ ActionTokenOf(k)' = [ActionTokenOf(k) EXCEPT !.expires = now]
              /\ actionTokens' \ {ActionTokenOf(k)'}
                    = actionTokens \ {ActionTokenOf(k)}
        /\ Lapsed(k) => Lapsed(k)'
        /\ ((\E t \in ACTIONS_TYPE : RedeemOf(k, t))
               /\ (Lapsed(k) \/ (issued[k] # NoRow /\ ~Live(k))))
           => /\ response'.detail = (IF Live(k) THEN "Expired" ELSE "NotFound")
              /\ applied' = applied
              /\ UsersUnchanged
              /\ actionTokens' = actionTokens
    ]_vars

\* A token on which expire() ran before its window was over is still
\* stored, and its redemption with the right type and an accepted payload
\* has been refused as Expired.
C19_Witness ==
    /\ response.op = "redeem"
    /\ response.detail = "Expired"
    /\ response.valid
    /\ Live(response.key)
    /\ response.type = ActionTokenOf(response.key).type
    /\ ActionTokenOf(response.key).expires
          < ActionTokenOf(response.key).created + ActivationWindow
    /\ applied[response.key] = 0

\* C20 as stated: in every reachable state the expires of each
\* TemporaryToken is strictly later than its creation time.
C20_StrictlyLater ==
    \A t \in temporaryTokens : t.expires > t.created

\* C20, amended: a TemporaryToken is created with expires = creation time +
\* SessionWindow, and after any logins, renewals and expire() calls its
\* expires is never earlier than its creation time; it equals the creation
\* time only once expire() has run on it, at the clock reading of its
\* creation.
C20_NotEarlier ==
    [][/\ \A u \in Users :
             (IssueTo(u) /\ ~HasToken(u))
             => /\ TokenOfUser(u)'.created = now
                /\ TokenOfUser(u)'.expires = now + SessionWindow
       /\ \A k \in TempKeys :
             Stored(k)'
             => /\ TokenOf(k)'.expires >= TokenOf(k)'.created
                /\ TokenOf(k)'.expires = TokenOf(k)'.created
                      => /\ session'[k] = NoSession
                         /\ (response'.op = "expire" /\ response'.key = k)
                               => now = TokenOf(k).created
    ]_vars

\* With renewal enabled, expire() has run on a token later than it was
\* created: its expires is the time of the call.
C20_Witness ==
    /\ response.op = "expire"
    /\ Stored(response.key)
    /\ RENEW_ON_SUCCESS
    /\ session[response.key] = NoSession
    /\ TokenOf(response.key).expires = now
    /\ TokenOf(response.key).created < now

\* A step that stores a new ActionToken under key
CreateOf(key) ==
    /\ response'.op \in {"signup", "reset_password"}
    /\ response'.status = 201
    /\ response'.key = key

\* Windows configured per type, password_change longer than
\* account_activation
actionWindow(type) ==
    IF type = "account_activation" THEN ActivationWindow
    ELSE ActivationWindow + 1

ActionTokensOf(tokens, user) == {t \in tokens : t.user = user}

\* C22: a signup registers the user inactive and adds exactly one
\* ActionToken, of type account_activation, owned by that user, under a key
\* no token has or had; every issue of an ActionToken, at signup or for a
\* password reset, adds one row and leaves every stored row as it was.
C22_IssueAddsOne ==
    [][\A k \in ActionKeys :
        /\ (CreateOf(k) /\ response'.op = "signup")
           => /\ response'.user \notin registered
              /\ registered' = registered \cup {response'.user}
              /\ ~is_active'[response'.user]
              /\ ActionTokenOf(k)'.type = "account_activation"
              /\ ActionTokenOf(k)'.user = response'.user
              /\ ActionTokensOf(actionTokens', response'.user)
                    = {ActionTokenOf(k)'}
        /\ CreateOf(k)
           => /\ k \notin ActionKeysOf(actionTokens)
              /\ issued[k] = NoRow
              /\ actionTokens \subseteq actionTokens'
              /\ Cardinality(actionTokens') = Cardinality(actionTokens) + 1
              /\ Cardinality(ActionKeysOf(actionTokens'))
                    = Cardinality(actionTokens')
              /\ ActionTokenOf(k)'.user = response'.user
    ]_vars

\* The user who signed up, still inactive, has asked for a password reset:
\* the activation token and the password_change token are both stored,
\* under different keys.
C22_Witness ==
    /\ response.op = "reset_password"
    /\ response.status = 201
    /\ ~is_active[response.user]
    /\ \E t1, t2 \in ActionTokensOf(actionTokens, response.user) :
          /\ t1.key # t2.key
          /\ t1.type = "account_activation"
          /\ t2.type = "password_change"
          /\ t2.key = response.key

\* A step that is save() on the stored session row of key
SaveOf(key) == response'.op = "save" /\ response'.key = key
\* A step that is save() on the stored ActionToken row of key
SaveActionOf(key) == response'.op = "save_action" /\ response'.key = key
\* A step that is expire() on the stored session row of key
ExpireTempOf(key) == response'.op = "expire" /\ response'.key = key

\* C23: the first save of a token gives it a key and expires = now + its
\* window; save() on a stored token, of either kind, changes neither its key
\* nor its expires nor any other row; expire(), which ends with save(),
\* leaves expires at the time of the expire() and the row expired, and a
\* later save() of that row keeps it so.
C23_SaveOnce ==
    [][/\ \A u \in Users :
             (IssueTo(u) /\ ~HasToken(u))
             => /\ TokenOfUser(u)'.key # NoKey
                /\ TokenOfUser(u)'.key \notin TempKeysOf(temporaryTokens)
                /\ TokenOfUser(u)'.expires = now + SessionWindow
       /\ \A k \in TempKeys :
             /\ SaveOf(k)
                => /\ Stored(k)
                   /\ temporaryTokens' = temporaryTokens
                   /\ TokenOf(k).expires <= now => TokenOf(k)'.expires <= now'
             /\ ExpireTempOf(k)
                => /\ Stored(k)'
                   /\ TokenOf(k)'.key = k
                   /\ TokenOf(k)'.expires = now
                   /\ TokenOf(k)'.expires <= now'
                   /\ TempKeysOf(temporaryTokens') = TempKeysOf(temporaryTokens)
       /\ \A k \in ActionKeys :
             /\ CreateOf(k)
                => /\ k # NoKey
                   /\ ~Live(k)
                   /\ Live(k)'
                   /\ ActionTokenOf(k)'.expires = now + ActivationWindow
             /\ SaveActionOf(k)
                => /\ Live(k)
                   /\ actionTokens' = actionTokens
                   /\ ActionTokenOf(k).expires <= now
                      => ActionTokenOf(k)'.expires <= now'
             /\ ExpireOf(k)
                => /\ Live(k)'
                   /\ ActionTokenOf(k)'.key = k
                   /\ ActionTokenOf(k)'.expires = now
                   /\ ActionTokenOf(k)'.expires <= now'
                   /\ ActionKeysOf(actionTokens') = ActionKeysOf(actionTokens)
      ]_vars

\* save() has just run on a session row that expire() had cut short at an
\* earlier time, and on the stored ActionToken likewise: both still carry
\* the expire() time and are expired.
C23_Witness ==
    /\ response.op \in {"save", "save_action"}
    /\ \E t \in temporaryTokens :
          /\ session[t.key] = NoSession
          /\ t.created < t.expires
          /\ t.expires < t.created + SessionWindow
          /\ t.expires < now
    /\ \E a \in actionTokens :
          /\ a.expires < a.created + ActivationWindow
          /\ a.expires < now

=============================================================================
